---------------------------- MODULE Spec2Model ----------------------------
(***************************************************************************)
(* A model of the chat client: the conversation controller (ChatInterface), *)
(* the input guard (SecureChatInput) and the credential holder             *)
(* (ApiKeySetup).  Handlers are the actions; an awaited fetch splits a      *)
(* handler into the part that runs up to the await and the continuation    *)
(* that runs when the reply arrives.  React commits the state updates of a *)
(* handler before the next event is dispatched, so every handler reads the *)
(* state the previous one left.  Texts are sequences of one-character      *)
(* strings.  handleSubmit looks at isLoading itself, so the handlers of     *)
(* SecureChatInput are taken to be callable whenever it is mounted, the    *)
(* disabled attributes of its textarea and button notwithstanding.         *)
(* validateAndSetApiKey has one caller, a button that is disabled while    *)
(* isValidating, and that is its guard here.                               *)
(***************************************************************************)
EXTENDS Integers, Sequences, FiniteSets, TLC

VARIABLES
    now,              \* Date.now(), in milliseconds
    storage,          \* localStorage["openrouter_api_key"]; <<>> when not set
    effectPending,    \* the mount effect of ChatInterface has not run yet
    messages,         \* ChatInterface: messages
    isLoading,        \* ChatInterface: isLoading
    apiKey,           \* ChatInterface: apiKey; <<>> stands for null
    showApiKeySetup,  \* ChatInterface: showApiKeySetup
    input,            \* SecureChatInput: input
    lastMessageTime,  \* SecureChatInput: lastMessageTime
    setupKey,         \* ApiKeySetup: apiKey (the text field)
    isValidating,     \* ApiKeySetup: isValidating
    inflight,         \* completion requests sent and not yet answered
    validations,      \* key-validation requests sent and not yet answered
    notice,           \* the toast or alert the last step showed, "" if none
    lastOp,           \* the handler (and its branch) that ran last
    lastAccepted      \* history: when a user message was last appended, or -1

vars == <<now, storage, effectPending, messages, isLoading, apiKey,
          showApiKeySetup, input, lastMessageTime, setupKey, isValidating,
          inflight, validations, notice, lastOp, lastAccepted>>

-----------------------------------------------------------------------------
(* Program constants *)

MAX_MESSAGE_LENGTH == 4000
RATE_LIMIT_DELAY == 1000

(* Bounds of the model *)

\* the value of Date.now() when the page loads
Epoch == 5000
\* how many times the clock advances
MaxTicks == 2
\* the longest conversation the model builds
MaxMessages == 4

\* The clock is observed at the instants the rate limit tells apart: one
\* millisecond before a whole interval has passed since the last such
\* instant, and the millisecond at which it has.
NextInstant(t) ==
    IF (t - Epoch) % RATE_LIMIT_DELAY = 0 THEN t + RATE_LIMIT_DELAY - 1 ELSE t + 1

\* how many instants lie between the page load and t
Ticks(t) ==
    2 * ((t - Epoch) \div RATE_LIMIT_DELAY)
    + (IF (t - Epoch) % RATE_LIMIT_DELAY = 0 THEN 0 ELSE 1)

-----------------------------------------------------------------------------
(* Texts *)

Null == <<>>

SubStr(s, i, j) == IF j < i THEN <<>> ELSE SubSeq(s, i, j)

\* String.prototype.toLowerCase on the letters the model's texts use
Lower(c) ==
    CASE c = "J" -> "j"
      [] c = "S" -> "s"
      [] c = "O" -> "o"
      [] OTHER -> c

\* \w of a regular expression
WordChars ==
    {"a", "b", "c", "d", "e", "f", "g", "h", "i", "j", "k", "l", "m", "n",
     "o", "p", "q", "r", "s", "t", "u", "v", "w", "x", "y", "z",
     "J", "S", "O", "0", "1", "2", "3", "4", "5", "6", "7", "8", "9", "_"}

WhiteSpace == {" ", "\n", "\t"}

\* pat (lower case) occurs in s at position i, letter case ignored
MatchesAt(s, i, pat) ==
    /\ i >= 1
    /\ i + Len(pat) - 1 <= Len(s)
    /\ \A k \in 1..Len(pat) : Lower(s[i + k - 1]) = pat[k]

\* the first position >= i where pat occurs in s, or 0
RECURSIVE FindFrom(_, _, _)
FindFrom(s, i, pat) ==
    IF i + Len(pat) - 1 > Len(s) THEN 0
    ELSE IF MatchesAt(s, i, pat) THEN i
    ELSE FindFrom(s, i + 1, pat)

ScriptOpen == <<"<", "s", "c", "r", "i", "p", "t">>
ScriptClose == <<"<", "/", "s", "c", "r", "i", "p", "t", ">">>
JavascriptColon == <<"j", "a", "v", "a", "s", "c", "r", "i", "p", "t", ":">>

\* /<script\b[^<]*(?:(?!<\/script>)<[^<]*)*<\/script>/gi matched at i: the
\* last position of the match, or 0.  No part of the pattern can consume
\* the "<" of a closing tag, so the match ends at the first closing tag.
ScriptEnd(s, i) ==
    IF /\ MatchesAt(s, i, ScriptOpen)
       /\ i + 7 <= Len(s)
       /\ s[i + 7] \notin WordChars
    THEN LET c == FindFrom(s, i + 7, ScriptClose)
         IN  IF c = 0 THEN 0 ELSE c + Len(ScriptClose) - 1
    ELSE 0

\* /javascript:/gi matched at i
JavascriptEnd(s, i) ==
    IF MatchesAt(s, i, JavascriptColon) THEN i + Len(JavascriptColon) - 1 ELSE 0

\* the last position of the run of word characters that starts at i (i - 1
\* when s[i] is none)
RECURSIVE WordRunEnd(_, _)
WordRunEnd(s, i) ==
    IF i <= Len(s) /\ s[i] \in WordChars THEN WordRunEnd(s, i + 1) ELSE i - 1

\* /on\w+="[^"]*"/gi matched at i.  "=" is no word character, so \w+ takes
\* the whole run of word characters.
HandlerEnd(s, i) ==
    IF MatchesAt(s, i, <<"o", "n">>)
    THEN LET w == WordRunEnd(s, i + 2)
         IN  IF /\ w >= i + 2
                /\ MatchesAt(s, w + 1, <<"=", "\"">>)
             THEN FindFrom(s, w + 3, <<"\"">>)
             ELSE 0
    ELSE 0

\* String.prototype.replace(/.../g, ''): left to right, the matches removed
MatchEnd(pattern, s, i) ==
    CASE pattern = "script" -> ScriptEnd(s, i)
      [] pattern = "javascript" -> JavascriptEnd(s, i)
      [] pattern = "handler" -> HandlerEnd(s, i)

RECURSIVE RemoveAll(_, _, _)
RemoveAll(s, i, pattern) ==
    IF i > Len(s) THEN <<>>
    ELSE LET e == MatchEnd(pattern, s, i)
         IN  IF e >= i THEN RemoveAll(s, e + 1, pattern)
             ELSE <<s[i]>> \o RemoveAll(s, i + 1, pattern)

\* s without the white space it starts with
TrimStart(s) ==
    IF \A i \in 1..Len(s) : s[i] \in WhiteSpace THEN <<>>
    ELSE LET first == CHOOSE k \in 1..Len(s) :
                          /\ s[k] \notin WhiteSpace
                          /\ \A j \in 1..(k - 1) : s[j] \in WhiteSpace
         IN  SubStr(s, first, Len(s))

\* s without the white space it ends with
TrimEnd(s) ==
    IF \A i \in 1..Len(s) : s[i] \in WhiteSpace THEN <<>>
    ELSE LET last == CHOOSE k \in 1..Len(s) :
                         /\ s[k] \notin WhiteSpace
                         /\ \A j \in (k + 1)..Len(s) : s[j] \in WhiteSpace
         IN  SubStr(s, 1, last)

\* String.prototype.trim
Trim(s) == TrimEnd(TrimStart(s))

sanitizeInput(text) ==
    Trim(RemoveAll(RemoveAll(RemoveAll(text, 1, "script"), 1, "javascript"),
                   1, "handler"))

\* Number.prototype.toString: the decimal digits
Digit(d) == <<"0", "1", "2", "3", "4", "5", "6", "7", "8", "9">>[d + 1]

RECURSIVE toString(_)
toString(n) ==
    IF n < 10 THEN <<Digit(n)>> ELSE toString(n \div 10) \o <<Digit(n % 10)>>

-----------------------------------------------------------------------------
(* btoa and atob.  A call either returns a value or throws. *)

Returned(v) == [ok |-> TRUE, value |-> v]
Throws == [ok |-> FALSE, value |-> <<>>]

\* the character codes of the characters the model's keys use; EACUTE is a
\* character of Latin-1 beyond ASCII, EURO a character outside Latin-1
CharCode(c) ==
    CASE c = " " -> 32
      [] c = "-" -> 45
      [] c = "1" -> 49
      [] c = "a" -> 97
      [] c = "b" -> 98
      [] c = "c" -> 99
      [] c = "k" -> 107
      [] c = "o" -> 111
      [] c = "r" -> 114
      [] c = "s" -> 115
      [] c = "v" -> 118
      [] c = "EACUTE" -> 233
      [] c = "EURO" -> 8364

CodedChars ==
    {" ", "-", "1", "a", "b", "c", "k", "o", "r", "s", "v", "EACUTE", "EURO"}

\* String.fromCharCode, on the codes above
FromCharCode(n) == CHOOSE c \in CodedChars : CharCode(c) = n

Base64Chars ==
    <<"A", "B", "C", "D", "E", "F", "G", "H", "I", "J", "K", "L", "M", "N",
      "O", "P", "Q", "R", "S", "T", "U", "V", "W", "X", "Y", "Z",
      "a", "b", "c", "d", "e", "f", "g", "h", "i", "j", "k", "l", "m", "n",
      "o", "p", "q", "r", "s", "t", "u", "v", "w", "x", "y", "z",
      "0", "1", "2", "3", "4", "5", "6", "7", "8", "9", "+", "/">>

Base64Char(n) == Base64Chars[n + 1]

Base64Value(c) == (CHOOSE i \in 1..64 : Base64Chars[i] = c) - 1

IsBase64Char(c) == \E i \in 1..64 : Base64Chars[i] = c

\* the base64 text of a sequence of bytes
RECURSIVE EncodeBytes(_)
EncodeBytes(b) ==
    IF Len(b) = 0 THEN <<>>
    ELSE IF Len(b) = 1 THEN
        <<Base64Char(b[1] \div 4), Base64Char((b[1] % 4) * 16), "=", "=">>
    ELSE IF Len(b) = 2 THEN
        <<Base64Char(b[1] \div 4),
          Base64Char((b[1] % 4) * 16 + b[2] \div 16),
          Base64Char((b[2] % 16) * 4), "=">>
    ELSE
        <<Base64Char(b[1] \div 4),
          Base64Char((b[1] % 4) * 16 + b[2] \div 16),
          Base64Char((b[2] % 16) * 4 + b[3] \div 64),
          Base64Char(b[3] % 64)>> \o EncodeBytes(SubStr(b, 4, Len(b)))

\* btoa throws on a character outside Latin-1
btoa(s) ==
    IF \E i \in 1..Len(s) : CharCode(s[i]) > 255 THEN Throws
    ELSE Returned(EncodeBytes([i \in 1..Len(s) |-> CharCode(s[i])]))

\* the bytes of a sequence of base64 values, padding removed
RECURSIVE DecodeValues(_)
DecodeValues(v) ==
    IF Len(v) < 2 THEN <<>>
    ELSE IF Len(v) = 2 THEN <<v[1] * 4 + v[2] \div 16>>
    ELSE IF Len(v) = 3 THEN
        <<v[1] * 4 + v[2] \div 16, (v[2] % 16) * 16 + v[3] \div 4>>
    ELSE
        <<v[1] * 4 + v[2] \div 16, (v[2] % 16) * 16 + v[3] \div 4,
          (v[3] % 4) * 64 + v[4]>> \o DecodeValues(SubStr(v, 5, Len(v)))

\* a text whose length is a multiple of four loses one or two final "="
StripPadding(t) ==
    IF Len(t) % 4 = 0 /\ Len(t) > 0 /\ t[Len(t)] = "="
    THEN IF t[Len(t) - 1] = "=" THEN SubStr(t, 1, Len(t) - 2)
         ELSE SubStr(t, 1, Len(t) - 1)
    ELSE t

\* atob throws on a text that is no base64
atob(t) ==
    LET d == StripPadding(t)
    IN  IF Len(d) % 4 = 1 \/ \E i \in 1..Len(d) : ~IsBase64Char(d[i])
        THEN Throws
        ELSE LET b == DecodeValues([i \in 1..Len(d) |-> Base64Value(d[i])])
             IN  Returned([i \in 1..Len(b) |-> FromCharCode(b[i])])

-----------------------------------------------------------------------------
(* The values the environment supplies *)

\* a fixed text of the program is one token
GreetingText == <<"Hello! I'm DeepSeek AI. How can I assist you today?">>
PlaceholderText == <<"I'm sorry, I couldn't process that request.">>

Prefix == <<"s", "k", "-", "o", "r", "-", "v", "1", "-">>
GoodKey == Prefix \o <<"a">>

\* what the user may type into the key field
KeyTexts == {GoodKey, <<"a", "b", "c">>}

\* what localStorage may hold when the page loads: nothing, a key saved by an
\* earlier visit, or a text that is no base64
InitialStorage == {Null, btoa(GoodKey).value, <<"!", "!">>}

LongText == [i \in 1..(MAX_MESSAGE_LENGTH + 1) |-> "a"]

\* what the user may type into the message box
InputTexts ==
    { <<" ">> \o JavascriptColon \o <<"h", "i">> \o <<" ">>,
      LongText }

\* a body of a completion reply: whether it parses as JSON, whether the
\* parsed value has a choices array, and the choices
Choice(hasMessage, hasContent, content) ==
    [hasMessage |-> hasMessage, hasContent |-> hasContent, content |-> content]

Body(parses, hasChoices, choices) ==
    [parses |-> parses, hasChoices |-> hasChoices, choices |-> choices]

Bodies ==
    { Body(FALSE, FALSE, <<>>),
      Body(TRUE, FALSE, <<>>),
      Body(TRUE, TRUE, <<>>),
      Body(TRUE, TRUE, <<Choice(FALSE, FALSE, <<>>)>>),
      Body(TRUE, TRUE, <<Choice(TRUE, FALSE, <<>>)>>),
      Body(TRUE, TRUE, <<Choice(TRUE, TRUE, <<>>)>>),
      Body(TRUE, TRUE, <<Choice(TRUE, TRUE, <<"o", "k">>),
                         Choice(TRUE, TRUE, <<"n", "o">>)>>) }

\* an exception: whether it is an Error, and its message
Exception(isError, message) == [isError |-> isError, message |-> message]
NoException == Exception(FALSE, "")

\* what fetch does: it throws, or it returns a response
Response(thrown, status, body) ==
    [thrown |-> thrown, status |-> status, body |-> body]

Statuses == {200, 401, 429, 500}

Responses ==
    { Response(Exception(TRUE, "Failed to fetch"), 0, Body(FALSE, FALSE, <<>>)) }
    \cup { Response(NoException, 200, b) : b \in Bodies }
    \cup { Response(NoException, st, Body(TRUE, FALSE, <<>>)) :
             st \in Statuses \ {200} }

\* a slip: any reply counts as a success
okAnyStatus(response) == TRUE

\* Response.ok
ok(response) == response.status >= 200 /\ response.status <= 299

-----------------------------------------------------------------------------
(* ChatInterface *)

Message(id, content, isUser, timestamp) ==
    [id |-> id, content |-> content, isUser |-> isUser, timestamp |-> timestamp]

InitialMessage(t) == Message(<<"1">>, GreetingText, FALSE, t)

\* a slip: the stored text is returned as it is stored
getStoredApiKeyUndecoded == storage

getStoredApiKey ==
    IF storage = Null THEN Null
    ELSE LET decoded == atob(storage)
         IN  IF decoded.ok THEN decoded.value ELSE Null

RemoveAt(q, i) == SubStr(q, 1, i - 1) \o SubStr(q, i + 1, Len(q))

\* showApiKeySetup becomes true: SecureChatInput unmounts and its state is
\* lost, ApiKeySetup mounts with the existing key in its field
OpenSetup ==
    /\ showApiKeySetup' = TRUE
    /\ input' = <<>>
    /\ lastMessageTime' = 0
    /\ setupKey' = apiKey
    /\ isValidating' = FALSE

\* showApiKeySetup becomes false: ApiKeySetup unmounts, SecureChatInput
\* mounts with its initial state
CloseSetup ==
    /\ showApiKeySetup' = FALSE
    /\ input' = <<>>
    /\ lastMessageTime' = 0
    /\ setupKey' = <<>>
    /\ isValidating' = FALSE

Init ==
    /\ now = Epoch
    /\ storage \in InitialStorage
    /\ effectPending = TRUE
    /\ messages = <<InitialMessage(Epoch)>>
    /\ isLoading = FALSE
    /\ apiKey = Null
    /\ showApiKeySetup = FALSE
    /\ input = <<>>
    /\ lastMessageTime = 0
    /\ setupKey = <<>>
    /\ isValidating = FALSE
    /\ inflight = <<>>
    /\ validations = <<>>
    /\ notice = ""
    /\ lastOp = "init"
    /\ lastAccepted = -1

\* time passes
Tick ==
    /\ Ticks(NextInstant(now)) <= MaxTicks
    /\ now' = NextInstant(now)
    /\ UNCHANGED <<storage, effectPending, messages, isLoading, apiKey,
                   showApiKeySetup, input, lastMessageTime, setupKey,
                   isValidating, inflight, validations, notice, lastOp,
                   lastAccepted>>

\* a slip: the effect loads the key and does nothing when there is none
MountEffectLoadingOnly ==
    /\ effectPending
    /\ effectPending' = FALSE
    /\ apiKey' = IF getStoredApiKey # Null THEN getStoredApiKey ELSE apiKey
    /\ lastOp' = "mountEffect"
    /\ notice' = ""
    /\ UNCHANGED <<now, storage, messages, isLoading, showApiKeySetup, input,
                   lastMessageTime, setupKey, isValidating, inflight,
                   validations, lastAccepted>>

\* the effect that runs once after the first render
MountEffect ==
    /\ effectPending
    /\ effectPending' = FALSE
    /\ LET storedKey == getStoredApiKey
       IN  IF storedKey # Null
           THEN /\ apiKey' = storedKey
                /\ UNCHANGED <<showApiKeySetup, input, lastMessageTime,
                               setupKey, isValidating>>
           ELSE /\ IF showApiKeySetup
                   THEN UNCHANGED <<showApiKeySetup, input, lastMessageTime,
                                    setupKey, isValidating>>
                   ELSE OpenSetup
                /\ UNCHANGED apiKey
    /\ lastOp' = "mountEffect"
    /\ notice' = ""
    /\ UNCHANGED <<now, storage, messages, isLoading, inflight, validations,
                   lastAccepted>>

\* a slip: New Chat empties the conversation
handleNewChatEmptying ==
    /\ ~showApiKeySetup
    /\ messages' = <<>>
    /\ lastOp' = "handleNewChat"
    /\ notice' = ""
    /\ UNCHANGED <<now, storage, effectPending, isLoading, apiKey,
                   showApiKeySetup, input, lastMessageTime, setupKey,
                   isValidating, inflight, validations, lastAccepted>>

\* a slip: the greeting is added to the conversation instead of replacing it
handleNewChatAppending ==
    /\ ~showApiKeySetup
    /\ messages' = Append(messages, InitialMessage(now))
    /\ lastOp' = "handleNewChat"
    /\ notice' = ""
    /\ UNCHANGED <<now, storage, effectPending, isLoading, apiKey,
                   showApiKeySetup, input, lastMessageTime, setupKey,
                   isValidating, inflight, validations, lastAccepted>>

\* a variant: New Chat also calls setIsLoading(false)
handleNewChatClearingLoading ==
    /\ ~showApiKeySetup
    /\ messages' = <<InitialMessage(now)>>
    /\ isLoading' = FALSE
    /\ lastOp' = "handleNewChat"
    /\ notice' = ""
    /\ UNCHANGED <<now, storage, effectPending, apiKey,
                   showApiKeySetup, input, lastMessageTime, setupKey,
                   isValidating, inflight, validations, lastAccepted>>

handleNewChat ==
    /\ ~showApiKeySetup
    /\ messages' = <<InitialMessage(now)>>
    /\ lastOp' = "handleNewChat"
    /\ notice' = ""
    /\ UNCHANGED <<now, storage, effectPending, isLoading, apiKey,
                   showApiKeySetup, input, lastMessageTime, setupKey,
                   isValidating, inflight, validations, lastAccepted>>

handleManageApiKey ==
    /\ ~showApiKeySetup
    /\ OpenSetup
    /\ lastOp' = "handleManageApiKey"
    /\ notice' = ""
    /\ UNCHANGED <<now, storage, effectPending, messages, isLoading, apiKey,
                   inflight, validations, lastAccepted>>

\* a slip: sendMessage does not look at apiKey
HasApiKeyAlways == TRUE

\* if (!apiKey) fails
HasApiKey == apiKey # Null

\* a slip: the captured messages are mapped, without the new one
conversationHistoryWithoutNew(list) ==
    [i \in 1..(Len(list) - 1) |->
        [role |-> IF list[i].isUser THEN "user" ELSE "assistant",
         content |-> list[i].content]]

\* [...].map(msg => ({role: msg.isUser ? "user" : "assistant", content}))
conversationHistory(list) ==
    [i \in 1..Len(list) |->
        [role |-> IF list[i].isUser THEN "user" ELSE "assistant",
         content |-> list[i].content]]

\* the part of sendMessage that runs before fetch is awaited
sendMessage(content) ==
    IF ~HasApiKey
    THEN /\ notice' = "Please set your API key to send messages."
         /\ lastOp' = "sendMessage:noKey"
         /\ UNCHANGED <<messages, isLoading, inflight, lastAccepted>>
    ELSE LET userMessage == Message(toString(now), content, TRUE, now)
         IN  /\ Len(messages) < MaxMessages
             /\ messages' = Append(messages, userMessage)
             /\ isLoading' = TRUE
             /\ inflight' = Append(inflight,
                                   [apiKey |-> apiKey,
                                    history |-> Append(messages, userMessage),
                                    conversationHistory |->
                                        conversationHistory(
                                            Append(messages, userMessage))])
             /\ lastOp' = "sendMessage:sent"
             /\ notice' = ""
             /\ lastAccepted' = now

\* the text the catch block of sendMessage shows
CatchMessage(error) ==
    IF error.isError THEN error.message
    ELSE "Failed to send message. Please try again."

\* what the try block of sendMessage throws after fetch returned, if anything
ThrownAfterFetch(response) ==
    IF ~ok(response)
    THEN IF response.status = 401
         THEN Exception(TRUE, "Authentication failed. Please check your API key.")
         ELSE IF response.status = 429
         THEN Exception(TRUE, "Rate limit exceeded. Please try again later.")
         ELSE Exception(TRUE, "Service temporarily unavailable. Please try again.")
    ELSE IF ~response.body.parses
    THEN Exception(TRUE, "Unexpected token < in JSON at position 0")
    ELSE IF ~response.body.hasChoices
    THEN Exception(TRUE, "Cannot read properties of undefined (reading '0')")
    ELSE NoException

\* a slip: the last choice is read, not the first
aiResponseLastChoice(data) ==
    IF /\ Len(data.choices) > 0
       /\ data.choices[Len(data.choices)].hasMessage
       /\ data.choices[Len(data.choices)].hasContent
       /\ data.choices[Len(data.choices)].content # <<>>
    THEN data.choices[Len(data.choices)].content
    ELSE PlaceholderText

\* data.choices[0]?.message?.content || "I'm sorry, ..."
aiResponse(data) ==
    IF /\ Len(data.choices) > 0
       /\ data.choices[1].hasMessage
       /\ data.choices[1].hasContent
       /\ data.choices[1].content # <<>>
    THEN data.choices[1].content
    ELSE PlaceholderText

\* what the try block of sendMessage throws, if anything
Thrown(response) ==
    IF response.thrown # NoException THEN response.thrown
    ELSE ThrownAfterFetch(response)

\* a variant: a failure is shown as a message of the assistant
MessagesAfterTryWithErrorBubble(response) ==
    Append(messages,
           Message(toString(now + 1),
                   IF Thrown(response) # NoException THEN PlaceholderText
                   ELSE aiResponse(response.body),
                   FALSE, now))

\* the messages once the try block has run: the reply is appended unless
\* the block threw
MessagesAfterTry(response) ==
    IF Thrown(response) # NoException THEN messages
    ELSE Append(messages,
                Message(toString(now + 1), aiResponse(response.body), FALSE, now))

\* a slip: the flag is cleared at the end of the try block, not in finally
LoadingAfterSuccessOnly(response) ==
    IF Thrown(response) # NoException THEN isLoading ELSE FALSE

\* finally: setIsLoading(false), whether or not the try block threw
LoadingAfterFinally(response) == FALSE

\* a variant: a request that failed is sent again
sendMessageReplyRetrying(i, response) ==
    /\ i \in 1..Len(inflight)
    /\ inflight' = IF Thrown(response) # NoException
                   THEN Append(RemoveAt(inflight, i), inflight[i])
                   ELSE RemoveAt(inflight, i)
    /\ messages' = MessagesAfterTry(response)
    /\ IF Thrown(response) # NoException
       THEN /\ notice' = CatchMessage(Thrown(response))
            /\ lastOp' = "sendMessage:failed"
            /\ isLoading' = TRUE
       ELSE /\ notice' = ""
            /\ lastOp' = "sendMessage:replied"
            /\ isLoading' = FALSE
    /\ UNCHANGED <<now, storage, effectPending, apiKey, showApiKeySetup, input,
                   lastMessageTime, setupKey, isValidating, validations,
                   lastAccepted>>

\* the rest of sendMessage, from the reply of fetch on
sendMessageReply(i, response) ==
    /\ i \in 1..Len(inflight)
    /\ inflight' = RemoveAt(inflight, i)
    /\ messages' = MessagesAfterTry(response)
    /\ IF Thrown(response) # NoException
       THEN /\ notice' = CatchMessage(Thrown(response))
            /\ lastOp' = "sendMessage:failed"
       ELSE /\ notice' = ""
            /\ lastOp' = "sendMessage:replied"
    /\ isLoading' = LoadingAfterFinally(response)
    /\ UNCHANGED <<now, storage, effectPending, apiKey, showApiKeySetup, input,
                   lastMessageTime, setupKey, isValidating, validations,
                   lastAccepted>>

handleApiKeySet(newApiKey) ==
    /\ apiKey' = newApiKey
    /\ CloseSetup

-----------------------------------------------------------------------------
(* SecureChatInput *)

Validation(isValid, error) == [isValid |-> isValid, error |-> error]

\* a slip: the rate limit is looked at before the length
validateInputRateFirst(text) ==
    IF Trim(text) = <<>>
    THEN Validation(FALSE, "Message cannot be empty")
    ELSE IF now - lastMessageTime < RATE_LIMIT_DELAY
    THEN Validation(FALSE, "Please wait before sending another message")
    ELSE IF Len(text) > MAX_MESSAGE_LENGTH
    THEN Validation(FALSE, "Message too long (max 4000 characters)")
    ELSE Validation(TRUE, "")

validateInput(text) ==
    IF Trim(text) = <<>>
    THEN Validation(FALSE, "Message cannot be empty")
    ELSE IF Len(text) > MAX_MESSAGE_LENGTH
    THEN Validation(FALSE, "Message too long (max 4000 characters)")
    ELSE IF now - lastMessageTime < RATE_LIMIT_DELAY
    THEN Validation(FALSE, "Please wait before sending another message")
    ELSE Validation(TRUE, "")

handleInputChange(value) ==
    /\ ~showApiKeySetup
    /\ input' = IF Len(value) <= MAX_MESSAGE_LENGTH THEN value ELSE input
    /\ lastOp' = "handleInputChange"
    /\ notice' = ""
    /\ UNCHANGED <<now, storage, effectPending, messages, isLoading, apiKey,
                   showApiKeySetup, lastMessageTime, setupKey, isValidating,
                   inflight, validations, lastAccepted>>

\* a slip: handleSubmit does not look at isLoading
CanSendAlways == TRUE

\* if (!isLoading)
CanSend == ~isLoading

\* a slip: the time of the submission is recorded before the guard is asked
handleSubmitStampingFirst ==
    /\ ~showApiKeySetup
    /\ LET sanitizedInput == sanitizeInput(input)
           validation == validateInput(sanitizedInput)
       IN  IF ~validation.isValid
           THEN /\ notice' = validation.error
                /\ lastOp' = "handleSubmit:rejected"
                /\ lastMessageTime' = now
                /\ UNCHANGED <<messages, isLoading, inflight, input,
                               lastAccepted>>
           ELSE IF CanSend
           THEN /\ sendMessage(sanitizedInput)
                /\ input' = <<>>
                /\ lastMessageTime' = now
           ELSE /\ lastOp' = "handleSubmit:dropped"
                /\ notice' = ""
                /\ UNCHANGED <<messages, isLoading, inflight, input,
                               lastMessageTime, lastAccepted>>
    /\ UNCHANGED <<now, storage, effectPending, apiKey, showApiKeySetup,
                   setupKey, isValidating, validations>>

handleSubmit ==
    /\ ~showApiKeySetup
    /\ LET sanitizedInput == sanitizeInput(input)
           validation == validateInput(sanitizedInput)
       IN  IF ~validation.isValid
           THEN /\ notice' = validation.error
                /\ lastOp' = "handleSubmit:rejected"
                /\ UNCHANGED <<messages, isLoading, inflight, input,
                               lastMessageTime, lastAccepted>>
           ELSE IF CanSend
           THEN /\ sendMessage(sanitizedInput)
                /\ input' = <<>>
                /\ lastMessageTime' = now
           ELSE /\ lastOp' = "handleSubmit:dropped"
                /\ notice' = ""
                /\ UNCHANGED <<messages, isLoading, inflight, input,
                               lastMessageTime, lastAccepted>>
    /\ UNCHANGED <<now, storage, effectPending, apiKey, showApiKeySetup,
                   setupKey, isValidating, validations>>

-----------------------------------------------------------------------------
(* ApiKeySetup *)

\* a slip: String.prototype.includes in the place of startsWith
includes(s, prefix) ==
    \E i \in 1..Len(s) :
        /\ i + Len(prefix) - 1 <= Len(s)
        /\ SubStr(s, i, i + Len(prefix) - 1) = prefix

startsWith(s, prefix) ==
    Len(s) >= Len(prefix) /\ SubStr(s, 1, Len(prefix)) = prefix

\* onChange of the key field
setApiKey(value) ==
    /\ showApiKeySetup
    /\ setupKey' = value
    /\ lastOp' = "setApiKey"
    /\ notice' = ""
    /\ UNCHANGED <<now, storage, effectPending, messages, isLoading, apiKey,
                   showApiKeySetup, input, lastMessageTime, isValidating,
                   inflight, validations, lastAccepted>>

\* the part of validateAndSetApiKey that runs before fetch is awaited
validateAndSetApiKey ==
    /\ showApiKeySetup
    /\ ~isValidating
    /\ IF Trim(setupKey) = <<>>
       THEN /\ lastOp' = "validateAndSetApiKey:blank"
            /\ notice' = ""
            /\ UNCHANGED <<isValidating, validations>>
       ELSE IF ~startsWith(setupKey, Prefix)
       THEN /\ notice' = "Invalid API key format. OpenRouter API keys should start with 'sk-or-v1-'"
            /\ lastOp' = "validateAndSetApiKey:format"
            /\ UNCHANGED <<isValidating, validations>>
       ELSE /\ isValidating' = TRUE
            /\ validations' = Append(validations, [apiKey |-> setupKey])
            /\ lastOp' = "validateAndSetApiKey:sent"
            /\ notice' = ""
    /\ UNCHANGED <<now, storage, effectPending, messages, isLoading, apiKey,
                   showApiKeySetup, input, lastMessageTime, setupKey, inflight,
                   lastAccepted>>

\* what the key-validation endpoint may answer
ValidationResponses ==
    { Response(Exception(TRUE, "Failed to fetch"), 0, Body(FALSE, FALSE, <<>>)),
      Response(NoException, 200, Body(TRUE, FALSE, <<>>)),
      Response(NoException, 401, Body(TRUE, FALSE, <<>>)) }

\* the rest of validateAndSetApiKey, from the reply of fetch on
validateReply(i, response) ==
    /\ i \in 1..Len(validations)
    /\ LET request == validations[i]
           rest == RemoveAt(validations, i)
           encryptedKey == btoa(request.apiKey)
       IN  IF response.thrown # NoException \/ (ok(response) /\ ~encryptedKey.ok)
           THEN /\ notice' = "Failed to validate API key. Please check your connection and try again."
                /\ lastOp' = "validateAndSetApiKey:failed"
                /\ validations' = rest
                /\ isValidating' = FALSE
                /\ UNCHANGED <<storage, apiKey, showApiKeySetup, input,
                               lastMessageTime, setupKey>>
           ELSE IF ok(response)
           THEN /\ storage' = encryptedKey.value
                /\ handleApiKeySet(request.apiKey)
                /\ validations' = rest
                /\ lastOp' = "validateAndSetApiKey:set"
                /\ notice' = ""
           ELSE /\ notice' = "Invalid API key. Please check your key and try again."
                /\ lastOp' = "validateAndSetApiKey:invalid"
                /\ validations' = rest
                /\ isValidating' = FALSE
                /\ UNCHANGED <<storage, apiKey, showApiKeySetup, input,
                               lastMessageTime, setupKey>>
    /\ UNCHANGED <<now, effectPending, messages, isLoading, inflight,
                   lastAccepted>>

-----------------------------------------------------------------------------

Next ==
    \/ Tick
    \/ MountEffect
    \/ handleNewChat
    \/ handleManageApiKey
    \/ \E value \in InputTexts : handleInputChange(value)
    \/ handleSubmit
    \/ \E i \in 1..Len(inflight), response \in Responses :
           sendMessageReply(i, response)
    \/ \E value \in KeyTexts : setApiKey(value)
    \/ validateAndSetApiKey
    \/ \E i \in 1..Len(validations), response \in ValidationResponses :
           validateReply(i, response)

Spec == Init /\ [][Next]_vars

-----------------------------------------------------------------------------
(* The input guard on its own: sanitizeInput and validateInput applied to    *)
(* any text, at any time since the last submission                           *)

\* how many fragments a raw text is made of, at most
MaxFragments == 3

Fragments ==
    { <<"j", "a", "v", "a">>,
      <<"s", "c", "r", "i", "p", "t", ":">>,
      <<"J", "a", "v", "a", "S", "c", "r", "i", "p", "t", ":">>,
      ScriptOpen \o <<">">>,
      ScriptClose,
      <<"o", "n", "c", "=", "\"", "a", "\"">>,
      <<"h", "i">>,
      <<" ">> }

RECURSIVE Concatenations(_)
Concatenations(n) ==
    IF n = 0 THEN {<<>>}
    ELSE LET shorter == Concatenations(n - 1)
         IN  shorter \cup {f \o t : f \in Fragments, t \in shorter}

LongBlank == [i \in 1..(MAX_MESSAGE_LENGTH + 1) |-> " "]

\* the texts sanitizeInput and validateInput are given
RawTexts == Concatenations(MaxFragments) \cup {LongText, LongBlank}

\* the times of the last submission: none yet, or one at the page load
LastMessageTimes == {0, Epoch}

InitInput ==
    /\ now = Epoch
    /\ storage = Null
    /\ effectPending = FALSE
    /\ messages = <<InitialMessage(Epoch)>>
    /\ isLoading = FALSE
    /\ apiKey = GoodKey
    /\ showApiKeySetup = FALSE
    /\ input \in RawTexts
    /\ lastMessageTime \in LastMessageTimes
    /\ setupKey = <<>>
    /\ isValidating = FALSE
    /\ inflight = <<>>
    /\ validations = <<>>
    /\ notice = ""
    /\ lastOp = "init"
    /\ lastAccepted = -1

\* sanitizeInput applied to the text; handleInputChange keeps a longer text
\* out of input
Sanitize ==
    /\ Len(input) <= MAX_MESSAGE_LENGTH
    /\ input' = sanitizeInput(input)
    /\ lastOp' = "sanitizeInput"
    /\ notice' = ""
    /\ UNCHANGED <<now, storage, effectPending, messages, isLoading, apiKey,
                   showApiKeySetup, lastMessageTime, setupKey, isValidating,
                   inflight, validations, lastAccepted>>

\* validateInput applied to the text
Validate ==
    /\ LET validation == validateInput(input)
       IN  /\ notice' = validation.error
           /\ lastOp' = IF validation.isValid THEN "validateInput:valid"
                        ELSE "validateInput:invalid"
    /\ UNCHANGED <<now, storage, effectPending, messages, isLoading, apiKey,
                   showApiKeySetup, input, lastMessageTime, setupKey,
                   isValidating, inflight, validations, lastAccepted>>

NextInput ==
    \/ Tick
    \/ Sanitize
    \/ Validate

SpecInput == InitInput /\ [][NextInput]_vars

-----------------------------------------------------------------------------
(* The credential holder on its own: the key field, its validation, the      *)
(* stored key, with clearStoredApiKey available and the page reloaded at     *)
(* any time                                                                  *)

\* what the user may type into the key field, in full
StoreKeyTexts ==
    KeyTexts
    \cup { <<" ">>,
           Prefix,
           <<" ">> \o GoodKey,
           <<"S", "K", "-", "O", "R", "-", "V", "1", "-", "a">>,
           Prefix \o <<"a", "b">>,
           Prefix \o <<"a", "b", "c">>,
           Prefix \o <<"EACUTE">>,
           Prefix \o <<"EURO">> }

clearStoredApiKey ==
    /\ storage' = Null
    /\ lastOp' = "clearStoredApiKey"
    /\ notice' = ""
    /\ UNCHANGED <<now, effectPending, messages, isLoading, apiKey,
                   showApiKeySetup, input, lastMessageTime, setupKey,
                   isValidating, inflight, validations, lastAccepted>>

\* the page is loaded again: localStorage stays, the components start from
\* their initial state, the requests of the old page are gone
Reload ==
    /\ effectPending' = TRUE
    /\ messages' = <<InitialMessage(now)>>
    /\ isLoading' = FALSE
    /\ apiKey' = Null
    /\ showApiKeySetup' = FALSE
    /\ input' = <<>>
    /\ lastMessageTime' = 0
    /\ setupKey' = <<>>
    /\ isValidating' = FALSE
    /\ inflight' = <<>>
    /\ validations' = <<>>
    /\ lastOp' = "reload"
    /\ notice' = ""
    /\ UNCHANGED <<now, storage, lastAccepted>>

NextKey ==
    \/ MountEffect
    \/ handleManageApiKey
    \/ \E value \in StoreKeyTexts : setApiKey(value)
    \/ validateAndSetApiKey
    \/ \E i \in 1..Len(validations), response \in ValidationResponses :
           validateReply(i, response)
    \/ clearStoredApiKey
    \/ Reload

SpecKey == Init /\ [][NextKey]_vars

-----------------------------------------------------------------------------
(* The whole program over page loads: more than one key that passes, the     *)
(* page reloaded at any time                                                 *)

\* further texts typed into the key field: a second key, and a key btoa
\* does not take
SessionKeyTexts == {Prefix \o <<"a", "b">>, Prefix \o <<"EURO">>}

NextSession ==
    \/ Next
    \/ \E value \in SessionKeyTexts : setApiKey(value)
    \/ Reload

SpecSession == Init /\ [][NextSession]_vars

-----------------------------------------------------------------------------
(* The claims *)

\* the step just taken is a handler (or continuation) that ended in one of ops
StepOf(ops) == lastOp' \in ops /\ now' = now

SubmitOutcomes ==
    {"handleSubmit:rejected", "handleSubmit:dropped", "sendMessage:noKey",
     "sendMessage:replied", "sendMessage:failed"}

\* C1, as stated: after every outcome of submit (credential missing, guard
\* rejection, dropped while pending, success, error status, exception)
\* isLoading is false.
C1_NotLoadingAfterAnyOutcome == lastOp \in SubmitOutcomes => ~isLoading

\* C1, amended: after a reply or a failure of a request isLoading is false,
\* after an outcome of submit that starts no request isLoading is false
\* unless an earlier request is still outstanding, and isLoading is false
\* whenever no request is outstanding.
C1_NotLoadingOnceNothingOutstanding ==
    /\ lastOp \in {"sendMessage:replied", "sendMessage:failed"} => ~isLoading
    /\ inflight = <<>> => ~isLoading

\* C1: a request failed and the flag is down again
C1_Witness ==
    /\ lastOp = "sendMessage:failed"
    /\ inflight = <<>>
    /\ ~isLoading
    /\ Len(messages) > 1

\* C2: at most one completion request is outstanding, isLoading is true
\* exactly when one is, and a request is only ever started by a submit that
\* found isLoading false (a submit while isLoading starts none, and nothing
\* starts one later on its behalf).
C2_SingleFlight ==
    /\ [](Len(inflight) <= 1 /\ (isLoading <=> Len(inflight) = 1))
    /\ [][Len(inflight') > Len(inflight)
            => ~isLoading /\ StepOf({"sendMessage:sent"})]_vars
    /\ [][StepOf({"handleSubmit:dropped"}) => inflight' = inflight]_vars

\* C2: a submit of an acceptable text was dropped while a request was
\* outstanding
C2_Witness ==
    /\ lastOp = "handleSubmit:dropped"
    /\ isLoading
    /\ Len(inflight) = 1
    /\ sanitizeInput(input) # <<>>

\* a submit of a text that is neither empty nor too long once sanitized
SubmitsAcceptableText ==
    /\ StepOf({"handleSubmit:rejected", "handleSubmit:dropped",
               "sendMessage:noKey", "sendMessage:sent"})
    /\ Trim(sanitizeInput(input)) # <<>>
    /\ Len(sanitizeInput(input)) <= MAX_MESSAGE_LENGTH

\* C3: a submit attempted less than RATE_LIMIT_DELAY ms after the last
\* accepted submission is rejected with the rate-limit reason and leaves the
\* length of the conversation unchanged, whatever happened in between.
C3_RateLimitHolds ==
    [][(/\ lastAccepted >= 0
        /\ now - lastAccepted < RATE_LIMIT_DELAY
        /\ SubmitsAcceptableText)
       => /\ lastOp' = "handleSubmit:rejected"
          /\ notice' = "Please wait before sending another message"
          /\ Len(messages') = Len(messages)]_vars

\* C4: the identifiers of the messages of the conversation are pairwise
\* distinct.
C4_DistinctIds ==
    \A i, j \in 1..Len(messages) : i # j => messages[i].id # messages[j].id

\* C5: right after New Chat the conversation is exactly the seeded greeting
\* of the assistant.
C5_ResetLeavesGreeting ==
    lastOp = "handleNewChat"
    => /\ Len(messages) = 1
       /\ messages[1].isUser = FALSE
       /\ messages[1].id = <<"1">>
       /\ messages[1].content = GreetingText

\* C5: New Chat ran on a conversation that held a user message
C5_Witness ==
    /\ lastOp = "handleNewChat"
    /\ Len(inflight) = 1
    /\ Len(inflight[1].history) >= 2
    /\ Len(messages) = 1

\* C6, as stated: right after New Chat isLoading is false, also when a
\* request was outstanding.
C6_ResetClearsLoading == lastOp = "handleNewChat" => ~isLoading

\* C6, amended: New Chat leaves isLoading (and the outstanding request) as
\* it was; invoked while a request is outstanding, isLoading is still true
\* right after it.
C6_ResetKeepsLoading ==
    [][StepOf({"handleNewChat"})
         => isLoading' = isLoading /\ inflight' = inflight]_vars

\* C6: New Chat ran while a request was outstanding
C6_Witness ==
    /\ lastOp = "handleNewChat"
    /\ isLoading
    /\ Len(inflight) = 1

\* the completion request fails: fetch throws, the status is not 2xx, or
\* reading the body throws
RequestFails(response) ==
    \/ response.thrown # NoException
    \/ response.status < 200
    \/ response.status > 299
    \/ ~response.body.parses
    \/ ~response.body.hasChoices

\* C7, as stated: after a failed request the conversation equals the
\* conversation right after the user message was appended.
C7_FailureLeavesConversationAsSent ==
    [][\A i \in 1..Len(inflight), response \in Responses :
         (sendMessageReply(i, response) /\ RequestFails(response))
         => messages' = inflight[i].history]_vars

\* C7, amended: a failed request appends no message: the conversation is
\* left as it was, which is the conversation right after the user message
\* was appended, or the seeded greeting alone when New Chat ran while the
\* request was outstanding.
C7_FailureAppendsNothing ==
    [][\A i \in 1..Len(inflight), response \in Responses :
         (sendMessageReply(i, response) /\ RequestFails(response))
         => /\ messages' = messages
            /\ \/ messages' = inflight[i].history
               \/ messages' = <<InitialMessage(messages'[1].timestamp)>>]_vars

\* C7: a request failed and the conversation ends with the user message
C7_Witness ==
    /\ lastOp = "sendMessage:failed"
    /\ Len(messages) = 2
    /\ messages[2].isUser

\* the category the claim gives a failure
Category(response) ==
    IF response.thrown = NoException /\ response.status = 401
    THEN "Authentication failed. Please check your API key."
    ELSE IF response.thrown = NoException /\ response.status = 429
    THEN "Rate limit exceeded. Please try again later."
    ELSE "Service temporarily unavailable. Please try again."

\* C8: a failed request is reported as authentication failure iff the
\* status is 401, as rate limiting iff it is 429, and as generic
\* unavailability for every other failure, a network error or a malformed
\* body included.
C8_FailureCategories ==
    [][\A i \in 1..Len(inflight), response \in Responses :
         (sendMessageReply(i, response) /\ RequestFails(response))
         => notice' = Category(response)]_vars

\* a reply with a 2xx status and a body that parses and holds choices
WellFormed(response) ==
    /\ response.thrown = NoException
    /\ response.status >= 200
    /\ response.status <= 299
    /\ response.body.parses
    /\ response.body.hasChoices

HasFirstContent(response) ==
    /\ Len(response.body.choices) >= 1
    /\ response.body.choices[1].hasMessage
    /\ response.body.choices[1].hasContent

\* the step appended exactly one message of the assistant with this text
AppendsAssistantMessage(text) ==
    /\ Len(messages') = Len(messages) + 1
    /\ SubSeq(messages', 1, Len(messages)) = messages
    /\ messages'[Len(messages')].isUser = FALSE
    /\ messages'[Len(messages')].content = text

\* C9, as stated: a well-formed 2xx reply appends exactly one message of the
\* assistant, whose text is the first choice's content, or the placeholder
\* when the first choice or its content is absent.
C9_ReplyTextIsFirstContent ==
    [][\A i \in 1..Len(inflight), response \in Responses :
         (sendMessageReply(i, response) /\ WellFormed(response))
         => AppendsAssistantMessage(
                IF HasFirstContent(response)
                THEN response.body.choices[1].content
                ELSE PlaceholderText)]_vars

\* C9, amended: the text is the placeholder also when the first choice's
\* content is the empty string.
C9_ReplyTextIsFirstContentOrPlaceholder ==
    [][\A i \in 1..Len(inflight), response \in Responses :
         (sendMessageReply(i, response) /\ WellFormed(response))
         => AppendsAssistantMessage(
                IF /\ HasFirstContent(response)
                   /\ response.body.choices[1].content # <<>>
                THEN response.body.choices[1].content
                ELSE PlaceholderText)]_vars

\* C9: a reply was appended with the text of a first choice
C9_Witness ==
    /\ lastOp = "sendMessage:replied"
    /\ Len(messages) = 3
    /\ messages[3].isUser = FALSE
    /\ messages[3].content = <<"o", "k">>

IsBlank(text) == \A i \in 1..Len(text) : text[i] \in {" ", "\n", "\t"}
IsTooLong(text) == Len(text) > 4000
IsTooSoon == now - lastMessageTime < 1000

\* C11: a call of the guard reports one reason, the first that applies of:
\* empty once trimmed, longer than 4000 characters, less than 1000 ms since
\* the last submission; it accepts the text iff none applies.
C11_OneReasonInOrder ==
    [][StepOf({"validateInput:valid", "validateInput:invalid"})
         => /\ notice' = (IF IsBlank(input) THEN "Message cannot be empty"
                          ELSE IF IsTooLong(input)
                          THEN "Message too long (max 4000 characters)"
                          ELSE IF IsTooSoon
                          THEN "Please wait before sending another message"
                          ELSE "")
            /\ lastOp' = "validateInput:valid"
               <=> ~IsBlank(input) /\ ~IsTooLong(input) /\ ~IsTooSoon]_vars

\* C11: a text that is too long, given too soon, was rejected as too long
C11_Witness ==
    /\ lastOp = "validateInput:invalid"
    /\ notice = "Message too long (max 4000 characters)"
    /\ IsTooLong(input)
    /\ ~IsBlank(input)
    /\ IsTooSoon

\* C15: sanitizing a sanitized text changes nothing:
\* sanitizeInput(sanitizeInput(s)) = sanitizeInput(s) for every text s the
\* input can hold.
C15_SanitizeIdempotent ==
    Len(input) <= MAX_MESSAGE_LENGTH
    => sanitizeInput(sanitizeInput(input)) = sanitizeInput(input)

\* C12: a submit the guard rejects leaves the conversation, the requests,
\* isLoading and lastMessageTime as they were; lastMessageTime becomes the
\* current time on the submits that pass the guard and are handed to
\* sendMessage, and on no other step.
C12_RejectedSubmitChangesNothing ==
    /\ [][StepOf({"handleSubmit:rejected"})
            => UNCHANGED <<messages, inflight, isLoading, lastMessageTime>>]_vars
    /\ [][StepOf({"sendMessage:noKey", "sendMessage:sent"})
            => lastMessageTime' = now]_vars
    /\ [][StepOf({"handleSubmit:dropped"})
            => lastMessageTime' = lastMessageTime]_vars
    /\ [][lastMessageTime' # lastMessageTime /\ lastMessageTime' = now'
            => StepOf({"sendMessage:noKey", "sendMessage:sent"})]_vars

\* C12: a submit was rejected while a request was outstanding, some time
\* after the submit that was handed on
C12_Witness ==
    /\ lastOp = "handleSubmit:rejected"
    /\ notice = "Please wait before sending another message"
    /\ isLoading
    /\ Len(inflight) = 1
    /\ lastMessageTime > 0
    /\ lastMessageTime < now

\* the text starts with sk-or-v1-
HasRequiredPrefix(s) ==
    /\ Len(s) >= 9
    /\ <<s[1], s[2], s[3], s[4], s[5], s[6], s[7], s[8], s[9]>>
         = <<"s", "k", "-", "o", "r", "-", "v", "1", "-">>

\* C13: Set API Key sends the text of the key field to the key-validation
\* endpoint iff the text starts with sk-or-v1-; for a text that does not, no
\* request is sent and neither the stored key nor the key in memory changes.
C13_FormatGate ==
    [][StepOf({"validateAndSetApiKey:blank", "validateAndSetApiKey:format",
               "validateAndSetApiKey:sent"})
         => /\ HasRequiredPrefix(setupKey)
               <=> /\ Len(validations') = Len(validations) + 1
                   /\ validations'[Len(validations')].apiKey = setupKey
            /\ ~HasRequiredPrefix(setupKey)
               => UNCHANGED <<validations, storage, apiKey>>]_vars

\* C13: a text that holds the prefix, but not at its start, was turned down
C13_Witness ==
    /\ lastOp = "validateAndSetApiKey:format"
    /\ setupKey = <<" ">> \o Prefix \o <<"a">>
    /\ validations = <<>>
    /\ showApiKeySetup

\* the key-validation endpoint answered, with a status from 200 to 299
Is2xx(response) ==
    /\ response.thrown = NoException
    /\ response.status >= 200
    /\ response.status <= 299

\* C14: the key is accepted (stored, handed to ChatInterface, the setup
\* screen closed) only on a 2xx reply of the key-validation endpoint; after
\* any other reply or a network failure the stored key and the key in memory
\* are as before, the setup screen is still shown, and the notice tells an
\* invalid key (a reply that is not 2xx) from a connectivity failure (an
\* exception); isValidating is false after every outcome.
C14_VerifyLive ==
    [][\A response \in ValidationResponses :
         (Len(validations) >= 1 /\ validateReply(1, response))
         => /\ isValidating' = FALSE
            /\ (\/ lastOp' = "validateAndSetApiKey:set"
                \/ storage' # storage
                \/ apiKey' # apiKey
                \/ ~showApiKeySetup')
               => /\ Is2xx(response)
                  /\ storage' # Null
                  /\ apiKey' = validations[1].apiKey
                  /\ ~showApiKeySetup'
            /\ ~Is2xx(response)
               => /\ UNCHANGED <<storage, apiKey>>
                  /\ showApiKeySetup'
                  /\ notice' =
                       (IF response.thrown # NoException
                        THEN "Failed to validate API key. Please check your connection and try again."
                        ELSE "Invalid API key. Please check your key and try again.")]_vars

\* C14: a new key was turned down by the endpoint and the key in use, and
\* its stored copy, were kept
C14_Witness ==
    /\ lastOp = "validateAndSetApiKey:invalid"
    /\ notice = "Invalid API key. Please check your key and try again."
    /\ showApiKeySetup
    /\ ~isValidating
    /\ apiKey = GoodKey
    /\ setupKey = Prefix \o <<"a", "b">>
    /\ getStoredApiKey = GoodKey

\* C18: getStoredApiKey returns the key the last successful validation
\* stored, also after a reload: right after a key is stored getStoredApiKey
\* returns that key, the key handed to ChatInterface, and the stored text
\* changes on no step but a store and clearStoredApiKey.  It returns null when nothing is stored, when the
\* stored text does not decode, and after clearStoredApiKey; no step but
\* clearStoredApiKey removes the stored text.  The mount effect takes the
\* key of ChatInterface from it.
C18_StoredKeyRoundTrip ==
    /\ [](storage = Null => getStoredApiKey = Null)
    /\ [](~atob(storage).ok => getStoredApiKey = Null)
    /\ [][StepOf({"validateAndSetApiKey:set"})
            => /\ Len(validations) = 1
               /\ apiKey' = validations[1].apiKey
               /\ storage' # Null]_vars
    /\ [](lastOp = "validateAndSetApiKey:set"
            => getStoredApiKey = apiKey /\ getStoredApiKey # Null)
    /\ [][storage' # storage
            => StepOf({"validateAndSetApiKey:set", "clearStoredApiKey"})]_vars
    /\ [](lastOp = "clearStoredApiKey" => getStoredApiKey = Null)
    /\ [][storage # Null /\ storage' = Null
            => StepOf({"clearStoredApiKey"})]_vars
    /\ [][StepOf({"mountEffect"}) /\ getStoredApiKey # Null
            => apiKey' = getStoredApiKey]_vars

\* C18: a key with a character beyond ASCII was stored, the page was
\* loaded again and the mount effect read the key back
C18_Witness ==
    /\ lastOp = "mountEffect"
    /\ apiKey = Prefix \o <<"EACUTE">>
    /\ getStoredApiKey = apiKey
    /\ ~showApiKeySetup

\* C16: the conversation is never empty, and a step leaves it as it is,
\* appends one message to its end with the others kept in their order, or
\* (New Chat) replaces it with the seeded greeting of the assistant alone.
C16_AppendOnlyExceptReset ==
    /\ [](Len(messages) >= 1)
    /\ [][\/ messages' = messages
          \/ /\ Len(messages') = Len(messages) + 1
             /\ SubSeq(messages', 1, Len(messages)) = messages
          \/ /\ StepOf({"handleNewChat"})
             /\ Len(messages') = 1
             /\ messages'[1].isUser = FALSE
             /\ messages'[1].content = GreetingText]_vars

\* C16: the conversation grew by a user message, a reply and another user
\* message
C16_Witness ==
    /\ Len(messages) = 4
    /\ messages[1].content = GreetingText
    /\ messages[2].isUser
    /\ ~messages[3].isUser
    /\ messages[4].isUser
    /\ lastOp = "sendMessage:sent"

\* the step appended one message of the user to the conversation
AppendsUserMessage ==
    /\ Len(messages') = Len(messages) + 1
    /\ SubSeq(messages', 1, Len(messages)) = messages
    /\ messages'[Len(messages')].isUser

\* the step sent one completion request
SendsRequest ==
    /\ Len(inflight') = Len(inflight) + 1
    /\ SubSeq(inflight', 1, Len(inflight)) = inflight

\* C17: a step sends a completion request iff it appends a user message,
\* and then it sends one; the end of a request, a failure included, takes
\* that request away and sends none; no other step touches the requests.
\* So the requests ever sent are as many as the user messages ever appended.
C17_OneRequestPerAcceptedSubmit ==
    /\ [][SendsRequest <=> AppendsUserMessage]_vars
    /\ [][SendsRequest => StepOf({"sendMessage:sent"})]_vars
    /\ [][StepOf({"sendMessage:failed", "sendMessage:replied"})
            => /\ Len(inflight') = Len(inflight) - 1
               /\ ~AppendsUserMessage]_vars
    /\ [][inflight' = inflight \/ SendsRequest
          \/ StepOf({"sendMessage:failed", "sendMessage:replied"})]_vars

\* C17: a request failed, and the next submit sent one request, for the
\* conversation with both user messages
C17_Witness ==
    /\ lastOp = "sendMessage:sent"
    /\ Len(inflight) = 1
    /\ Len(messages) = 3
    /\ messages[2].isUser
    /\ messages[3].isUser
    /\ inflight[1].history = messages

\* the role the request gives a message
Role(message) == IF message.isUser THEN "user" ELSE "assistant"

C20_ReplyFollowsItsUserMessage ==
    \A k \in 2..Len(messages) : ~messages[k].isUser => messages[k - 1].isUser

\* C21: once the mount effect has run, the chat screen is shown only while
\* ChatInterface holds a key: with no key the setup screen is shown, so
\* sendMessage is never reached without a key from then on; and the key
\* ChatInterface holds is the one getStoredApiKey returns.
C21_ChatOnlyWithCredential ==
    /\ [](~effectPending /\ apiKey = Null => showApiKeySetup)
    /\ [](~effectPending /\ apiKey # Null => getStoredApiKey = apiKey)
    /\ [][StepOf({"sendMessage:noKey"}) => effectPending]_vars

\* C21: a second key was stored, the page was loaded again, and the mount
\* effect read it back and left the chat screen shown
C21_Witness ==
    /\ lastOp = "mountEffect"
    /\ ~effectPending
    /\ ~showApiKeySetup
    /\ apiKey = Prefix \o <<"a", "b">>
    /\ getStoredApiKey = apiKey

=============================================================================
